---- MODULE Spec2Model ----
(***************************************************************************)
(* Model of xapian-extras/imgseek/src/image_terms.cc: ImgTerms turns an    *)
(* image signature into index terms and stored averages (AddTerms) and     *)
(* builds a weighted similarity query from an indexed document             *)
(* (querySimilar).                                                         *)
(*                                                                         *)
(* Strings are sequences of character codes (ASCII), so that to_string,    *)
(* concatenation, startswith and the term list's byte order are computed   *)
(* as the code computes them.  Weights are the table's values times 100.   *)
(* Channel averages are integers: multiples of half a bucket width of the  *)
(* channel's domain.                                                       *)
(***************************************************************************)
EXTENDS Integers, Sequences, FiniteSets, TLC

VARIABLES
    prefix,        \* ImgTerms::prefix
    weightmap,     \* ImgTerms::weightmap
    doc,           \* the Xapian::Document the caller works on
    sig,           \* the ImgSig the caller holds (the one last given to AddTerms)
    indexed,       \* how many times AddTerms has run on doc
    addval_calls,  \* the add_val calls of the last AddTerms, in order
    result         \* what the last querySimilar on doc came to

vars == <<prefix, weightmap, doc, sig, indexed, addval_calls, result>>

----------------------------------------------------------------------------
(* Bounds of the model *)

\* haar.h's NUM_PIXELS (128 in the program), scaled down.
NUM_PIXELS == 2

\* Largest number of coefficient positions of one signature (all channels).
MaxCoeffs == 2

\* Largest number of AddTerms calls on one document.
MaxIndexCalls == 2

----------------------------------------------------------------------------
(* Characters and strings *)

Channels == 0..2

\* The characters the code writes: '-', '0' and the 'A' of the "A0".."A2" prefixes.
CH_MINUS == 45
CH_0 == 48
CH_A == 65

Abs(n) == IF n < 0 THEN -n ELSE n
Min(a, b) == IF a < b THEN a ELSE b
Max(a, b) == IF a < b THEN b ELSE a

RECURSIVE Digits(_)
Digits(n) == IF n < 10 THEN <<CH_0 + n>>
             ELSE Digits(n \div 10) \o <<CH_0 + (n % 10)>>

\* operator<< of an int on a stringstream: decimal, with a leading '-'.
to_string(t) == IF t < 0 THEN <<CH_MINUS>> \o Digits(-t) ELSE Digits(t)

\* std::string's operator<: byte-wise lexicographic order.
RECURSIVE StrLess(_, _)
StrLess(s, t) ==
    IF t = <<>> THEN FALSE
    ELSE IF s = <<>> THEN TRUE
    ELSE IF s[1] # t[1] THEN s[1] < t[1]
    ELSE StrLess(Tail(s), Tail(t))

\* s.find(start) == 0: s begins with start.
startswith(s, start) ==
    /\ Len(start) <= Len(s)
    /\ SubSeq(s, 1, Len(start)) = start

----------------------------------------------------------------------------
(* Terms and the weight table *)

num_pixels_squared == NUM_PIXELS * NUM_PIXELS

\* The coefficient positions of the weight table: [-N, N).
TablePositions == (-num_pixels_squared)..(num_pixels_squared - 1)

\* Mutant of colourprefix: the channel is left out.
colourprefix_no_channel(c) == prefix

colourprefix(c) == prefix \o to_string(c)

make_coeff_term(x, c) == colourprefix(c) \o to_string(x)

\* weights[6][3], times 100; rows are bins 0..5, columns Y, I, Q.
weights ==
    << <<500, 1921, 3437>>,
       << 83,  126,   36>>,
       <<101,   44,   45>>,
       << 52,   53,   14>>,
       << 47,   28,   18>>,
       << 30,   14,   27>> >>

\* The bin of a coefficient: row and column of |idx| in the NUM_PIXELS square,
\* the larger of the two, at most 5 (bin b occurs 2b+1 times, the last bin
\* takes the rest, as the table's "occurs" column says).
find_weight(idx, colour) ==
    LET i == Abs(idx)
        bin == Min(Max(i \div NUM_PIXELS, i % NUM_PIXELS), 5)
    IN  weights[bin + 1][colour + 1]

\* Mutant of wm_passes: the outer loop runs while x <= N.
wm_passes_one_more == 1..((2 * num_pixels_squared + 1) * 3)

\* The passes of the two nested loops, in order: pass i has
\* x = -N + (i - 1) div 3 and c = (i - 1) mod 3.
wm_passes == 1..(2 * num_pixels_squared * 3)
wm_x(i) == -num_pixels_squared + (i - 1) \div 3
wm_c(i) == (i - 1) % 3
wm_key(i) == make_coeff_term(wm_x(i), wm_c(i))

\* wm[make_coeff_term(x, c)] = find_weight(x, c) in every pass: a key holds
\* the weight of the last pass that assigned it.
make_weightmap ==
    [k \in {wm_key(i) : i \in wm_passes} |->
        LET last == CHOOSE i \in wm_passes :
                        /\ wm_key(i) = k
                        /\ \A j \in wm_passes : j > i => wm_key(j) # k
        IN  find_weight(wm_x(last), wm_c(last))]

----------------------------------------------------------------------------
(* serialise-double.h: a double as a byte string.  A value is written as a *)
(* header byte (sign bit, mantissa length - 1 in bits 4..6, exponent in    *)
(* bits 0..3) and its mantissa bytes, zero as two zero bytes.  The values  *)
(* of the model are integers, so the exponent is the mantissa length.      *)

RECURSIVE Base256(_)
Base256(n) == IF n < 256 THEN <<n>> ELSE Base256(n \div 256) \o <<n % 256>>

RECURSIVE FromBase256(_)
FromBase256(b) ==
    IF b = <<>> THEN 0 ELSE FromBase256(SubSeq(b, 1, Len(b) - 1)) * 256 + b[Len(b)]

serialise_double(v) ==
    IF v = 0 THEN <<0, 0>>
    ELSE LET m == Base256(Abs(v))
         IN  <<(IF v < 0 THEN 128 ELSE 0) + 16 * (Len(m) - 1) + 7 + Len(m)>> \o m

\* unserialise_double(&ptr, end) on the whole string: [ok, val, used, msg];
\* used is how far ptr has moved, msg the NetworkError's message.
unserialise_double(bytes) ==
    IF Len(bytes) < 2
    THEN [ok |-> FALSE, val |-> 0, used |-> 0,
          msg |-> <<"Bad encoded double: insufficient data">>]
    ELSE IF bytes[1] = 0 /\ bytes[2] = 0
    THEN [ok |-> TRUE, val |-> 0, used |-> 2, msg |-> <<>>]
    ELSE LET first == bytes[1]
             negative == first >= 128
             mantissa_len == ((first \div 16) % 8) + 1
         IN  IF Len(bytes) - 1 < mantissa_len
             THEN [ok |-> FALSE, val |-> 0, used |-> 1,
                   msg |-> <<"Bad encoded double: short mantissa">>]
             ELSE LET m == FromBase256(SubSeq(bytes, 2, 1 + mantissa_len))
                  IN  [ok |-> TRUE, val |-> IF negative THEN -m ELSE m,
                       used |-> 1 + mantissa_len, msg |-> <<>>]

----------------------------------------------------------------------------
(* The configuration the constructor builds *)

\* Ranges of Y, I and Q, in half bucket widths of the channel.
Y_MIN == 0
Y_MAX == 510
I_MIN == -255
I_MAX == 255
Q_MIN == -255
Q_MAX == 255

\* "Put the values into 255 buckets."
NumBuckets == 255

\* The value slots v1, v2, v3 the constructor is given.
colour_vals == <<4, 5, 6>>

RangeAccelerator(prefix_, valnum_, min_, max_, step_) ==
    [prefix |-> prefix_, valnum |-> valnum_, min |-> min_, max |-> max_,
     step |-> step_]

colour_average_accels ==
    << RangeAccelerator(prefix \o <<CH_A>> \o to_string(0), colour_vals[1],
                        Y_MIN, Y_MAX, (Y_MAX - Y_MIN) \div NumBuckets),
       RangeAccelerator(prefix \o <<CH_A>> \o to_string(1), colour_vals[2],
                        I_MIN, I_MAX, (I_MAX - I_MIN) \div NumBuckets),
       RangeAccelerator(prefix \o <<CH_A>> \o to_string(2), colour_vals[3],
                        Q_MIN, Q_MAX, (Q_MAX - Q_MIN) \div NumBuckets) >>

----------------------------------------------------------------------------
(* The Range Discretizer (RangeAccelerator) *)

\* The bucket of a value: its offset from min in steps; a value outside
\* [min, max) goes to the nearest edge bucket.
bucket_of(accel, val) ==
    Max(0, Min((accel.max - accel.min) \div accel.step - 1,
               (val - accel.min) \div accel.step))

range_term(accel, b) == accel.prefix \o to_string(b)

\* add_val(doc, val): the raw value in the accelerator's slot, and the
\* bucket's term.
add_val(accel, d, val) ==
    [terms  |-> d.terms \cup {range_term(accel, bucket_of(accel, val))},
     values |-> [d.values EXCEPT ![accel.valnum] = serialise_double(val)]]

\* query_for_val_distance(val): a query over the accelerator's bucket terms
\* anchored at val.
query_for_val_distance(accel, val) ==
    [prefix |-> accel.prefix, valnum |-> accel.valnum, anchor |-> val,
     bucket |-> bucket_of(accel, val)]

----------------------------------------------------------------------------
(* Documents *)

Slots == {colour_vals[i] : i \in 1..3}

\* A new Xapian::Document: no terms, every value slot empty.
EmptyDoc == [terms |-> {}, values |-> [s \in Slots |-> <<>>]]

add_term(d, t) == [d EXCEPT !.terms = @ \cup {t}]

\* The document's terms as the term iterator yields them: in byte order.
RECURSIVE termlist(_)
termlist(T) ==
    IF T = {} THEN <<>>
    ELSE LET first == CHOOSE t \in T : \A u \in T \ {t} : StrLess(t, u)
         IN  <<first>> \o termlist(T \ {first})

----------------------------------------------------------------------------
(* Indexing *)

RECURSIVE add_coeff_terms(_, _, _)

\* Mutant of make_coeff_terms: sig3 goes under channel 1.
make_coeff_terms_sig3_as_1(sg) ==
    add_coeff_terms(sg.sig3, 1,
        add_coeff_terms(sg.sig2, 1,
            add_coeff_terms(sg.sig1, 0, {})))

\* Mutant of add_coeff_terms: the loop stops one element early.
add_coeff_terms_skip_last(s, c, r) ==
    r \cup {make_coeff_term(s[i], c) : i \in 1..(Len(s) - 1)}

\* add_coeff_terms(s, c, r): insert the term of every position of s into r.
add_coeff_terms(s, c, r) ==
    IF s = <<>> THEN r
    ELSE add_coeff_terms(Tail(s), c, r \cup {make_coeff_term(Head(s), c)})

make_coeff_terms(sg) ==
    add_coeff_terms(sg.sig3, 2,
        add_coeff_terms(sg.sig2, 1,
            add_coeff_terms(sg.sig1, 0, {})))

\* The loop over the terms: doc.add_term(*it).
add_terms(d, terms) == [d EXCEPT !.terms = @ \cup terms]

\* The loop over the channels: colour_average_accels[c].add_val(doc, sig.avgl[c]).
\* st.doc is the document, st.calls the calls of add_val made so far.
RECURSIVE add_vals(_, _, _)
add_vals(st, sg, c) ==
    IF c >= 3 THEN st
    ELSE add_vals([doc   |-> add_val(colour_average_accels[c + 1], st.doc, sg.avgl[c + 1]),
                   calls |-> Append(st.calls, [chan |-> c, val |-> sg.avgl[c + 1]])],
                  sg, c + 1)

AddTermsRun(d, sg) ==
    add_vals([doc |-> add_terms(d, make_coeff_terms(sg)), calls |-> <<>>], sg, 0)

----------------------------------------------------------------------------
(* Querying.  A query built by OR-ing sub-queries one after the other onto *)
(* an empty query is the sequence of those sub-queries.                    *)

\* Mutant of skip_to: the iterator stops one place after the first term
\* that is >= key.
skip_to_past(tl, key, i) ==
    Cardinality({j \in 1..Len(tl) : StrLess(tl[j], key)}) + 2

\* it.skip_to(key): the first place of the term list whose term is >= key.
RECURSIVE skip_to(_, _, _)
skip_to(tl, key, i) ==
    IF i > Len(tl) \/ ~StrLess(tl[i], key) THEN i ELSE skip_to(tl, key, i + 1)

\* The lookup and the scaling of one term: weightmap.find(*it), pos->second.
\* A term the map does not hold leaves pos at end(), and pos->second reads
\* what is not there: found is FALSE and the weight is whatever was read.
scaled_term(t, garbage) ==
    IF t \in DOMAIN weightmap
    THEN [term |-> t, weight |-> weightmap[t], found |-> TRUE]
    ELSE [term |-> t, weight |-> garbage, found |-> FALSE]

\* The while loop of one channel, from place i of the term list.
RECURSIVE scan_channel(_, _, _, _, _)
scan_channel(tl, cprefix, i, query, garbage) ==
    IF i <= Len(tl) /\ startswith(tl[i], cprefix)
    THEN scan_channel(tl, cprefix, i + 1,
                      Append(query, scaled_term(tl[i], garbage)), garbage)
    ELSE query

RECURSIVE coeff_loop(_, _, _, _)
coeff_loop(d, c, query, garbage) ==
    IF c >= 3 THEN query
    ELSE LET tl == termlist(d.terms)
             cprefix == colourprefix(c)
         IN  coeff_loop(d, c + 1,
                        scan_channel(tl, cprefix, skip_to(tl, cprefix, 1), query, garbage),
                        garbage)

make_coeff_query(d, garbage) == coeff_loop(d, 0, <<>>, garbage)

NoError == [type |-> "", msg |-> <<>>]

\* Mutant of average_step: the weight is read from row 1 of the table.
average_step_row1(d, c) ==
    LET doc_val == d.values[colour_vals[c + 1]]
        r == unserialise_double(doc_val)
    IN  IF ~r.ok
        THEN [ok |-> FALSE, sub |-> <<>>,
              err |-> [type |-> "InvalidArgumentError", msg |-> r.msg]]
        ELSE [ok |-> TRUE,
              sub |-> <<[chan |-> c,
                         dist |-> query_for_val_distance(colour_average_accels[c + 1], r.val),
                         weight |-> weights[2][c + 1]]>>,
              err |-> NoError]

\* Mutant of average_step: every channel reads the first value slot.
average_step_slot1(d, c) ==
    LET doc_val == d.values[colour_vals[1]]
        r == unserialise_double(doc_val)
    IN  IF ~r.ok
        THEN [ok |-> FALSE, sub |-> <<>>,
              err |-> [type |-> "InvalidArgumentError", msg |-> r.msg]]
        ELSE [ok |-> TRUE,
              sub |-> <<[chan |-> c,
                         dist |-> query_for_val_distance(colour_average_accels[c + 1], r.val),
                         weight |-> weights[1][c + 1]]>>,
              err |-> NoError]

\* One pass of the loop of make_averages_query for channel c.
average_step(d, c) ==
    LET doc_val == d.values[colour_vals[c + 1]]
        r == unserialise_double(doc_val)
    IN  IF ~r.ok
        THEN [ok |-> FALSE, sub |-> <<>>,
              err |-> [type |-> "InvalidArgumentError", msg |-> r.msg]]
        ELSE [ok |-> TRUE,
              sub |-> <<[chan |-> c,
                         dist |-> query_for_val_distance(colour_average_accels[c + 1], r.val),
                         weight |-> weights[1][c + 1]]>>,
              err |-> NoError]

RECURSIVE averages_loop(_, _, _)
averages_loop(d, c, query) ==
    IF c >= 3 THEN [ok |-> TRUE, query |-> query, err |-> NoError]
    ELSE LET st == average_step(d, c)
         IN  IF ~st.ok THEN [ok |-> FALSE, query |-> <<>>, err |-> st.err]
             ELSE averages_loop(d, c + 1, query \o st.sub)

make_averages_query(d) == averages_loop(d, 0, <<>>)

NoResult == [status |-> "none", coeff |-> <<>>, avg |-> <<>>, err |-> NoError,
             ub |-> FALSE]

\* Query(OP_OR, make_coeff_query(doc), make_averages_query(doc)).  The two
\* arguments are evaluated in either order (coeff_first); garbage is what a
\* read of a missing weight returned.  ub: such a read took place.
querySimilar(d, garbage, coeff_first) ==
    LET cq == make_coeff_query(d, garbage)
        aq == make_averages_query(d)
        ub == \E i \in 1..Len(cq) : ~cq[i].found
    IN  IF aq.ok
        THEN [status |-> "ok", coeff |-> cq, avg |-> aq.query, err |-> NoError,
              ub |-> ub]
        ELSE [status |-> "error", coeff |-> <<>>, avg |-> <<>>, err |-> aq.err,
              ub |-> ub /\ coeff_first]

\* The other outcome of reading the missing weight: the process dies.
Crashed == [status |-> "crash", coeff |-> <<>>, avg |-> <<>>, err |-> NoError,
            ub |-> TRUE]

\* What a read through the end() iterator may return.
GarbageWeights == {0, -1}

----------------------------------------------------------------------------
(* Inputs *)

\* The configured prefixes tried: "X" and "A".
Prefixes == {<<88>>, <<CH_A>>}

\* Coefficient positions of a signature: the lowest and the highest of the
\* table, the DC coefficient and a negative position.
SigPositions == {-num_pixels_squared, -1, 0, num_pixels_squared - 1}

\* A coeffs container enumerated in ascending order.
RECURSIVE SortedSeq(_)
SortedSeq(S) ==
    IF S = {} THEN <<>>
    ELSE LET m == CHOOSE x \in S : \A y \in S : x <= y
         IN  <<m>> \o SortedSeq(S \ {m})

CoeffChoices(n) == {P \in SUBSET (SigPositions \X Channels) : Cardinality(P) <= n}

ImgSig(P, avgl_) ==
    [sig1 |-> SortedSeq({q[1] : q \in {r \in P : r[2] = 0}}),
     sig2 |-> SortedSeq({q[1] : q \in {r \in P : r[2] = 1}}),
     sig3 |-> SortedSeq({q[1] : q \in {r \in P : r[2] = 2}}),
     avgl |-> avgl_]

\* Channel averages: a negative value, zero and a value of two mantissa bytes,
\* in every channel order.
AvgInputs == {-3, 0, 300}

AvgTuples == {a \in AvgInputs \X AvgInputs \X AvgInputs :
                 a[1] # a[2] /\ a[1] # a[3] /\ a[2] # a[3]}

Signatures == {ImgSig(P, a) : P \in CoeffChoices(MaxCoeffs), a \in AvgTuples}

NoSig == [sig1 |-> <<>>, sig2 |-> <<>>, sig3 |-> <<>>, avgl |-> <<0, 0, 0>>]

\* Terms of other origin a document may hold: the bare prefix, and a term of
\* a fourth field under the same prefix.
OtherTerms == {prefix, prefix \o to_string(3) \o to_string(0)}

----------------------------------------------------------------------------
(* Actions *)

Init ==
    /\ prefix \in Prefixes
    /\ weightmap = make_weightmap
    /\ doc = EmptyDoc
    /\ sig = NoSig
    /\ indexed = 0
    /\ addval_calls = <<>>
    /\ result = NoResult

\* The caller takes a new document, holding terms of other origin or none.
NewDocument ==
    /\ \E T \in SUBSET OtherTerms : doc' = [EmptyDoc EXCEPT !.terms = T]
    /\ sig' = NoSig
    /\ indexed' = 0
    /\ addval_calls' = <<>>
    /\ result' = NoResult
    /\ UNCHANGED <<prefix, weightmap>>

\* ImgTerms::AddTerms(doc, sg).
AddTermsWith(sg) ==
    LET run == AddTermsRun(doc, sg)
    IN  /\ doc' = run.doc
        /\ addval_calls' = run.calls
        /\ sig' = sg
        /\ indexed' = indexed + 1
        /\ result' = NoResult
        /\ UNCHANGED <<prefix, weightmap>>

\* AddTerms on a document not indexed yet.
AddTerms ==
    /\ indexed = 0
    /\ \E sg \in Signatures : AddTermsWith(sg)

\* AddTerms with the same signature on the document already indexed with it.
ReAddTerms ==
    /\ indexed >= 1
    /\ indexed < MaxIndexCalls
    /\ AddTermsWith(sig)

\* ImgTerms::querySimilar(doc).
QuerySimilar ==
    /\ LET r == querySimilar(doc, 0, TRUE)
       IN  IF ~r.ub
           THEN result' = r
           ELSE \/ result' = Crashed
                \/ \E garbage \in GarbageWeights, coeff_first \in BOOLEAN :
                      result' = querySimilar(doc, garbage, coeff_first)
    /\ UNCHANGED <<prefix, weightmap, doc, sig, indexed, addval_calls>>

Next == NewDocument \/ AddTerms \/ ReAddTerms \/ QuerySimilar

Spec == Init /\ [][Next]_vars


----------------------------------------------------------------------------
(* Documents of other origin: stored values and terms this ImgTerms did    *)
(* not write (another configuration, another N, a damaged value).          *)

\* A stored double cut short (its last mantissa byte is missing).
Truncated(bytes) == SubSeq(bytes, 1, Len(bytes) - 1)

\* A stored double followed by one more byte.
Trailing(bytes) == bytes \o <<0>>

StoredValues == {<<>>,
                 Truncated(serialise_double(300)),
                 Trailing(serialise_double(300))}

\* Terms under a channel's prefix that the weight table does not hold: the
\* position N of a larger table, and a suffix that is no number.
ForeignTerms == {make_coeff_term(num_pixels_squared, 0), colourprefix(1) \o <<120>>}

StoredSigs == {ImgSig(P, <<0, -3, 300>>) : P \in {{}, {<<0, 0>>}, {<<-1, 1>>, <<0, 2>>}}}

NewEmptyDocument ==
    /\ doc' = EmptyDoc
    /\ sig' = NoSig
    /\ indexed' = 0
    /\ addval_calls' = <<>>
    /\ result' = NoResult
    /\ UNCHANGED <<prefix, weightmap>>

AddTermsStored ==
    /\ indexed = 0
    /\ \E sg \in StoredSigs : AddTermsWith(sg)

\* Other code sets a value slot of the document: Document::add_value.
SetValue ==
    /\ \E c \in Channels, b \in StoredValues :
          doc' = [doc EXCEPT !.values[colour_vals[c + 1]] = b]
    /\ result' = NoResult
    /\ UNCHANGED <<prefix, weightmap, sig, indexed, addval_calls>>

\* Other code adds a term to the document: Document::add_term.
AddForeignTerm ==
    /\ \E t \in ForeignTerms : doc' = add_term(doc, t)
    /\ result' = NoResult
    /\ UNCHANGED <<prefix, weightmap, sig, indexed, addval_calls>>

NextStored ==
    NewEmptyDocument \/ AddTermsStored \/ SetValue \/ AddForeignTerm \/ QuerySimilar

SpecStored == Init /\ [][NextStored]_vars

----------------------------------------------------------------------------
(* Signatures whose coefficient containers are enumerated in any order and *)
(* with repeated positions.                                                *)

\* Up to n (position, channel) entries, in sequence.
RECURSIVE EntrySeqs(_)
EntrySeqs(n) ==
    IF n = 0 THEN {<<>>}
    ELSE LET shorter == EntrySeqs(n - 1)
         IN  shorter \cup {Append(e, q) : e \in {f \in shorter : Len(f) = n - 1},
                                          q \in SigPositions \X Channels}

RECURSIVE ChannelSeq(_, _)
ChannelSeq(e, c) ==
    IF e = <<>> THEN <<>>
    ELSE IF Head(e)[2] = c THEN <<Head(e)[1]>> \o ChannelSeq(Tail(e), c)
    ELSE ChannelSeq(Tail(e), c)

SeqSig(e) == [sig1 |-> ChannelSeq(e, 0), sig2 |-> ChannelSeq(e, 1),
              sig3 |-> ChannelSeq(e, 2), avgl |-> <<0, -3, 300>>]

SeqSignatures == {SeqSig(e) : e \in EntrySeqs(MaxCoeffs)}

InitOrder ==
    /\ prefix \in Prefixes
    /\ weightmap = make_weightmap
    /\ doc = EmptyDoc
    /\ sig \in SeqSignatures
    /\ indexed = 0
    /\ addval_calls = <<>>
    /\ result = NoResult

\* AddTerms with the signature the caller holds.
AddTermsHeld ==
    /\ indexed < MaxIndexCalls
    /\ AddTermsWith(sig)

NextOrder == AddTermsHeld \/ QuerySimilar

SpecOrder == InitOrder /\ [][NextOrder]_vars

----------------------------------------------------------------------------
(* Term construction under more prefixes: the empty prefix, prefixes that  *)
(* end in a digit or look like an accelerator's suffix.                    *)

\* "", "X", "A", "X1", "A0".
TermPrefixes == {<<>>, <<88>>, <<CH_A>>, <<88, 49>>, <<CH_A, CH_0>>}

\* Signatures of one position in one or in two channels.
TermSignatures ==
    {SeqSig(<<<<p, c1>>, <<p, c2>>>>) : p \in SigPositions, c1 \in Channels, c2 \in Channels}

InitTerms ==
    /\ prefix \in TermPrefixes
    /\ weightmap = make_weightmap
    /\ doc = EmptyDoc
    /\ sig \in TermSignatures
    /\ indexed = 0
    /\ addval_calls = <<>>
    /\ result = NoResult

SpecTerms == InitTerms /\ [][NextOrder]_vars

----------------------------------------------------------------------------
(* Signatures whose averages lie at the edges of the channels' domains.    *)

\* Just below min, min, the largest value below max, and max.
EdgeValues(c) ==
    LET a == colour_average_accels[c + 1]
    IN  {a.min - 1, a.min, a.max - 1, a.max}

EdgeSignatures ==
    {ImgSig({}, a) : a \in EdgeValues(0) \X EdgeValues(1) \X EdgeValues(2)}

AddTermsEdge ==
    /\ indexed = 0
    /\ \E sg \in EdgeSignatures : AddTermsWith(sg)

NextEdge == NewEmptyDocument \/ AddTermsEdge \/ QuerySimilar

SpecEdge == Init /\ [][NextEdge]_vars


----------------------------------------------------------------------------
(* Vocabulary of the properties *)

Range(f) == {f[i] : i \in DOMAIN f}

\* The (position, channel) pairs of a signature's three coefficient sets.
SigPairs(sg) ==
    {<<p, 0>> : p \in Range(sg.sig1)} \cup {<<p, 1>> : p \in Range(sg.sig2)}
        \cup {<<p, 2>> : p \in Range(sg.sig3)}

\* The coefficient terms of a document: its terms under a channel's prefix.
CoeffTermsOf(d) ==
    {t \in d.terms : \E c \in Channels : startswith(t, colourprefix(c))}

\* The range-bucket terms of a document.
BucketTermsOf(d) ==
    {t \in d.terms : \E c \in Channels :
        startswith(t, colour_average_accels[c + 1].prefix)}

\* The stored average of channel c, decoded.
Stored(d, c) == unserialise_double(d.values[colour_vals[c + 1]])

\* The stored field is exactly one well-formed encoding of a scalar.
WellFormed(d, c) ==
    /\ Stored(d, c).ok
    /\ Stored(d, c).used = Len(d.values[colour_vals[c + 1]])

\* A term under a channel's prefix that the weight table does not hold.
UnweightedTerms(d) == CoeffTermsOf(d) \ DOMAIN weightmap

\* An error whose message mentions channel c.
ChannelName(c) == <<"channel 0", "channel 1", "channel 2">>[c + 1]
NamesChannel(err, c) == \E i \in DOMAIN err.msg : err.msg[i] = ChannelName(c)

\* How often term t occurs among the sub-queries of a coefficient query.
Occurrences(q, t) == Cardinality({i \in DOMAIN q : q[i].term = t})

----------------------------------------------------------------------------
(* Properties *)

\* C1: after AddTerms on a document that held no coefficient terms, the
\* document's coefficient terms are exactly the terms of the signature's
\* (position, channel) pairs, add_val was called once per channel, in channel
\* order, with that channel's average, and the three stored values are the
\* three averages.
C1_IndexWritesTermsAndAverages ==
    indexed = 1 =>
        /\ CoeffTermsOf(doc) = {make_coeff_term(q[1], q[2]) : q \in SigPairs(sig)}
        /\ Cardinality(CoeffTermsOf(doc)) = Cardinality(SigPairs(sig))
        /\ addval_calls = [i \in 1..3 |-> [chan |-> i - 1, val |-> sig.avgl[i]]]
        /\ \A c \in Channels :
              /\ WellFormed(doc, c)
              /\ Stored(doc, c).val = sig.avgl[c + 1]

\* C1 witness: channel 0 has two positions (one negative), channel 2 none,
\* and the averages are 300, 0, -3.
C1_Witness ==
    /\ indexed = 1
    /\ sig.sig1 = <<-1, 0>>
    /\ sig.sig3 = <<>>
    /\ sig.avgl = <<300, 0, -3>>
    /\ Cardinality(CoeffTermsOf(doc)) = 2

\* C2 (as amended): for a document indexed from a signature whose positions
\* lie in the table, the coefficient query holds exactly one scaled singleton
\* sub-query per coefficient term of the signature, with the weight of its
\* (position, channel), and nothing else (no bucket term, no term twice); the
\* terms are the prefix, the channel digit and the decimal position with no
\* separator between them: <prefix>00 for (0, 0), <prefix>0-1 for (-1, 0).
C2_CoeffQueryOnePerTerm ==
    (result.status = "ok" /\ indexed >= 1) =>
        /\ \A q \in SigPairs(sig) :
              LET t == make_coeff_term(q[1], q[2])
              IN  /\ Occurrences(result.coeff, t) = 1
                  /\ \A i \in DOMAIN result.coeff :
                        result.coeff[i].term = t =>
                            /\ result.coeff[i].found
                            /\ result.coeff[i].weight = find_weight(q[1], q[2])
                  /\ t = prefix \o <<CH_0 + q[2]>> \o to_string(q[1])
        /\ Len(result.coeff) = Cardinality(SigPairs(sig))
        /\ \A i \in DOMAIN result.coeff : result.coeff[i].term \notin BucketTermsOf(doc)
        /\ (<<0, 0>> \in SigPairs(sig)) =>
              \E i \in DOMAIN result.coeff : result.coeff[i].term = prefix \o <<48, 48>>
        /\ (<<-1, 0>> \in SigPairs(sig)) =>
              \E i \in DOMAIN result.coeff : result.coeff[i].term = prefix \o <<48, 45, 49>>

\* C2 witness: a query built from a document with two terms of channel 0,
\* one of a negative position, beside terms of other origin.
C2_Witness ==
    /\ result.status = "ok"
    /\ sig.sig1 = <<-1, 0>>
    /\ Len(result.coeff) = 2
    /\ prefix \in doc.terms

\* C2 as stated: the term of position 0 of channel 0 is <prefix>0_0, with an
\* underscore between the channel and the position.
C2_Original ==
    (result.status = "ok" /\ indexed >= 1 /\ <<0, 0>> \in SigPairs(sig)) =>
        \E i \in DOMAIN result.coeff : result.coeff[i].term = prefix \o <<48, 95, 48>>

\* The average-distance sub-query the claims expect of channel c: the
\* channel's own accelerator, anchored at the decoded stored value, scaled by
\* the weight the table holds for the term of position 0.
ExpectedAverage(d, c) ==
    [chan |-> c,
     dist |-> query_for_val_distance(colour_average_accels[c + 1], Stored(d, c).val),
     weight |-> weightmap[make_coeff_term(0, c)]]

\* C3: for a document whose three stored averages decode, querySimilar is the
\* OR of the coefficient query (one sub-query per term under a channel's
\* prefix, or no outcome where that query reads a missing weight and dies)
\* and of exactly three average sub-queries, channel c's anchored at the
\* decoded value of channel c's field and scaled by the table's weight of
\* position 0 of channel c.
C3_SimilarIsOrOfBoth ==
    (result.status # "none" /\ \A c \in Channels : Stored(doc, c).ok) =>
        \/ /\ result.status = "ok"
           /\ result.avg = [i \in 1..3 |-> ExpectedAverage(doc, i - 1)]
           /\ {result.coeff[i].term : i \in DOMAIN result.coeff} = CoeffTermsOf(doc)
           /\ Len(result.coeff) = Cardinality(CoeffTermsOf(doc))
        \/ /\ result.status = "crash"
           /\ UnweightedTerms(doc) # {}

\* C3 witness: a query built from a document with stored averages and no
\* coefficient terms at all.
C3_Witness ==
    /\ result.status = "ok"
    /\ indexed = 1
    /\ CoeffTermsOf(doc) = {}
    /\ result.coeff = <<>>
    /\ Len(result.avg) = 3
    /\ \A c \in Channels : WellFormed(doc, c)

\* C4 as stated: with the stored average of one channel k malformed and the
\* other two well formed, querySimilar fails with an InvalidArgumentError
\* whose message names channel k.
C4_Original ==
    \A k \in Channels :
        ( /\ result.status # "none"
          /\ UnweightedTerms(doc) = {}
          /\ ~Stored(doc, k).ok
          /\ \A c \in Channels \ {k} : WellFormed(doc, c) ) =>
            /\ result.status = "error"
            /\ result.err.type = "InvalidArgumentError"
            /\ NamesChannel(result.err, k)

\* C5 as stated: querySimilar returns a query only if every channel's stored
\* field is exactly one well-formed encoding; a missing, truncated or
\* over-long field makes it fail with an InvalidArgumentError.
C5_Original ==
    /\ result.status = "ok" => \A c \in Channels : WellFormed(doc, c)
    /\ ( /\ result.status # "none"
         /\ UnweightedTerms(doc) = {}
         /\ \E c \in Channels : ~WellFormed(doc, c) ) =>
            /\ result.status = "error"
            /\ result.err.type = "InvalidArgumentError"

\* C6: the terms of a signature depend only on its three coefficient sets
\* (the same for the sets enumerated in ascending order without repeats, one
\* term per (position, channel) pair), and AddTerms with the same signature
\* on a document already indexed with it leaves the term set as it is.
C6_TermsDependOnSetsOnly ==
    /\ make_coeff_terms(sig) = make_coeff_terms(ImgSig(SigPairs(sig), sig.avgl))
    /\ Cardinality(make_coeff_terms(sig)) = Cardinality(SigPairs(sig))
    /\ indexed >= 1 =>
          /\ CoeffTermsOf(doc) = make_coeff_terms(sig)
          /\ AddTermsRun(doc, sig).doc.terms = doc.terms

\* C6 witness: a document indexed twice with a signature that lists
\* position 0 of channel 0 twice.
C6_Witness ==
    /\ indexed = 2
    /\ sig.sig1 = <<0, 0>>
    /\ Cardinality(CoeffTermsOf(doc)) = 1

\* C7: for the configured prefix, no channel prefix equals or begins another
\* channel's; make_coeff_term is injective on (position, channel) over the
\* table's positions; no coefficient term begins with a range accelerator's
\* prefix and no bucket term begins with a channel prefix.
C7_TermsNeverCollide ==
    /\ \A c1, c2 \in Channels :
          c1 # c2 => /\ colourprefix(c1) # colourprefix(c2)
                     /\ ~startswith(colourprefix(c2), colourprefix(c1))
    /\ \A p1, p2 \in TablePositions, c1, c2 \in Channels :
          make_coeff_term(p1, c1) = make_coeff_term(p2, c2) => (p1 = p2 /\ c1 = c2)
    /\ \A c1, c2 \in Channels :
          /\ \A p \in TablePositions :
                ~startswith(make_coeff_term(p, c1), colour_average_accels[c2 + 1].prefix)
          /\ \A b \in 0..(NumBuckets - 1) :
                ~startswith(range_term(colour_average_accels[c2 + 1], b), colourprefix(c1))
    /\ CoeffTermsOf(doc) \cap BucketTermsOf(doc) = {}

\* C7 witness: a document holding the terms of the same negative position
\* in two channels, and bucket terms.
C7_Witness ==
    /\ indexed >= 1
    /\ sig.sig1 = <<-1>>
    /\ sig.sig2 = <<-1>>
    /\ Cardinality(CoeffTermsOf(doc)) = 2
    /\ Cardinality(BucketTermsOf(doc)) = 3

\* C8: the weight table holds, for every position of [-N, N) and every
\* channel, the weight find_weight gives, which is not negative; every pass of
\* the construction wrote a key of its own, so there are 3 * 2N entries and
\* none for a position outside [-N, N); this is so in every state, AddTerms
\* and querySimilar having run or not.
C8_WeightTableComplete ==
    /\ DOMAIN weightmap = {make_coeff_term(p, c) : p \in TablePositions, c \in Channels}
    /\ Cardinality(DOMAIN weightmap) = 3 * 2 * num_pixels_squared
    /\ Cardinality(wm_passes) = Cardinality(DOMAIN weightmap)
    /\ \A p \in TablePositions, c \in Channels :
          /\ weightmap[make_coeff_term(p, c)] = find_weight(p, c)
          /\ weightmap[make_coeff_term(p, c)] >= 0
    /\ \A c \in Channels :
          /\ make_coeff_term(num_pixels_squared, c) \notin DOMAIN weightmap
          /\ make_coeff_term(-num_pixels_squared - 1, c) \notin DOMAIN weightmap

\* C8 witness: the table after AddTerms has run twice and querySimilar once.
C8_Witness ==
    /\ indexed = 2
    /\ result.status = "ok"
    /\ Len(result.coeff) = 2
    /\ make_coeff_term(-num_pixels_squared, 2) \in DOMAIN weightmap

C10_Original ==
    (result.status # "none" /\ UnweightedTerms(doc) # {}) =>
        /\ result.status = "error"
        /\ ~result.ub


====
